---- MODULE Spec2Model ----
(***************************************************************************)
(* A model of rest_client/client.go: the REST client for contexts.        *)
(*                                                                         *)
(* Strings the code inspects or rewrites (server URL, path references,     *)
(* query values, query keys) are sequences of one-character strings.       *)
(* Strings the code only carries around (the auth token, context names,    *)
(* error messages) are TLA+ strings.  A Go pointer that may be nil is a    *)
(* sequence of length 0 (nil) or 1 (the value pointed to).                 *)
(***************************************************************************)
EXTENDS Integers, Sequences, FiniteSets, TLC

\* ------------------------------------------------------------------ bounds

\* The longest chain of pages the server serves to one traversal.
MaxPages == 3

\* The number of items the server serves to one traversal, over all pages.
MaxItems == 3

\* The longest server URL handed to NewClient (specification SpecNew).
MaxServerLen == 3

\* ------------------------------------------------------------ value helpers

None == <<>>

Some(v) == <<v>>

Opt(S) == {None} \cup {Some(v) : v \in S}

SeqsUpTo(S, n) == UNION {[1..k -> S] : k \in 0..n}

RECURSIVE Flatten(_)
Flatten(ss) == IF ss = <<>> THEN <<>> ELSE Head(ss) \o Flatten(Tail(ss))

\* ------------------------------------------------------------------ errors

\* A Go error value: nil, or an error with the text it carries.
NoErr == None

Err(kind, msg) == Some([kind |-> kind, msg |-> msg])

\* ------------------------------------------------------------------- inputs

Procs == {"c1", "c2"}

Tokens == {"tokA", "tokB"}

\* "h" stands for any character a URL may hold unescaped; "%" not followed
\* by two hexadecimal digits is an escape net/url refuses.
ServerAlphabet == {"h", "/", "%"}

Servers == {<<"h">>, <<"%">>}

Orgs == {<<"o">>}

VCSs == {<<"g">>}

Names == {"a", "b"}

ContextIDs == {<<"x">>, <<"%">>, <<"%", "4", "1">>}

\* "/" stands for any character that url.Values.Encode escapes.
PageTokens == {<<"p">>, <<"/">>}

Messages == {"m1", "m2"}

StatusCodes == {200, 201, 500}

\* Context (created_at plays no part in any operation and is left out).
ItemUniverse ==
  { [ID |-> "i1", Name |-> "a"],
    [ID |-> "i2", Name |-> "a"],
    [ID |-> "i3", Name |-> "b"] }

\* --------------------------------------------------------------- NewClient

HasSuffixSlash(server) == Len(server) > 0 /\ server[Len(server)] = "/"

NewClient_always(server, token) ==
  [token |-> token, server |-> server \o <<"/">>, client |-> "http.Client"]

NewClient(server, token) ==
  [ token  |-> token,
    server |-> IF ~HasSuffixSlash(server) THEN server \o <<"/">> ELSE server,
    client |-> "http.Client" ]

\* ----------------------------------------------------------------- net/url

HexDigits ==
  { "0", "1", "2", "3", "4", "5", "6", "7", "8", "9",
    "a", "b", "c", "d", "e", "f", "A", "B", "C", "D", "E", "F" }

\* url.Parse fails on a "%" that does not start a %XX escape.
urlParseFails(s) ==
  \E i \in 1..Len(s) :
     /\ s[i] = "%"
     /\ ~(i + 2 <= Len(s) /\ s[i + 1] \in HexDigits /\ s[i + 2] \in HexDigits)

urlParse(s) ==
  IF urlParseFails(s) THEN [url |-> None, err |-> Err("url", "invalid URL escape")]
  ELSE [url |-> Some(s), err |-> NoErr]

LastSlash(s) ==
  IF \E i \in 1..Len(s) : s[i] = "/"
  THEN CHOOSE i \in 1..Len(s) : s[i] = "/" /\ \A j \in (i + 1)..Len(s) : s[j] # "/"
  ELSE 0

\* (*URL).Parse(ref): parse ref, then resolve it against the receiver: a
\* relative path replaces what follows the last "/" of the base path.
urlJoin(base, ref) ==
  IF urlParseFails(ref) THEN [url |-> None, err |-> Err("url", "invalid URL escape")]
  ELSE [url |-> Some(SubSeq(base, 1, LastSlash(base)) \o ref), err |-> NoErr]

\* url.QueryEscape: letters, digits, "-", "_", ".", "~" stay; the rest is %XX.
QueryEscapeChar(c) ==
  CASE c = "/" -> <<"%", "2", "F">>
    [] c = "%" -> <<"%", "2", "5">>
    [] c = " " -> <<"+">>
    [] OTHER   -> <<c>>

QueryEscape(s) == Flatten([i \in 1..Len(s) |-> QueryEscapeChar(s[i])])

\* Byte order of the characters query keys are made of.
Lower ==
  << "a", "b", "c", "d", "e", "f", "g", "h", "i", "j", "k", "l", "m",
     "n", "o", "p", "q", "r", "s", "t", "u", "v", "w", "x", "y", "z" >>

Byte(c) == IF c = "-" THEN 45 ELSE 96 + (CHOOSE i \in 1..Len(Lower) : Lower[i] = c)

\* a < b in Go's string order.
StringLess(a, b) ==
  \E i \in 1..(Len(b)) :
     /\ \A j \in 1..(i - 1) : j <= Len(a) /\ a[j] = b[j]
     /\ \/ i = Len(a) + 1
        \/ i <= Len(a) /\ Byte(a[i]) < Byte(b[i])

RECURSIVE SortStrings(_)
SortStrings(S) ==
  IF S = {} THEN <<>>
  ELSE LET m == CHOOSE x \in S : \A y \in S \ {x} : StringLess(x, y)
       IN  <<m>> \o SortStrings(S \ {m})

\* url.Values is a map from key to the list of its values; Add appends.
ValuesAdd(v, key, value) ==
  IF key \in DOMAIN v THEN [v EXCEPT ![key] = Append(@, value)]
  ELSE v @@ (key :> <<value>>)

EncodeUnsorted(v, order) ==
  Flatten([i \in 1..Len(order) |->
     [j \in 1..Len(v[order[i]]) |-> <<order[i], QueryEscape(v[order[i]][j])>>]])

\* Values.Encode: "key=value" pairs, keys sorted, values escaped.  The result
\* is kept as the sequence of its <<key, escaped value>> pairs.
ValuesEncode(v) == EncodeUnsorted(v, SortStrings(DOMAIN v))

KeyOwnerID == <<"o", "w", "n", "e", "r", "-", "i", "d">>

KeyOwnerSlug == <<"o", "w", "n", "e", "r", "-", "s", "l", "u", "g">>

KeyOwnerType == <<"o", "w", "n", "e", "r", "-", "t", "y", "p", "e">>

KeyPageToken == <<"p", "a", "g", "e", "-", "t", "o", "k", "e", "n">>

\* --------------------------------------------------------- request builder

toSlug(org, vcs) == vcs \o <<"/">> \o org

NoParams == [OwnerID |-> None, OwnerSlug |-> None, OwnerType |-> None, PageToken |-> None]

newHTTPRequest_noToken(c, method, url, query) ==
  IF urlParseFails(url)
  THEN [panic |-> FALSE, err |-> Err("url", "invalid URL escape"), req |-> None]
  ELSE [ panic |-> FALSE, err |-> NoErr,
         req |-> Some([ Method |-> method, Path |-> url, RawQuery |-> query,
                        Header |-> ("Accept" :> <<"application/json">>) ]) ]

\* http.NewRequest parses the URL text again; the two headers are then added.
newHTTPRequest(c, method, url, query) ==
  IF urlParseFails(url)
  THEN [panic |-> FALSE, err |-> Err("url", "invalid URL escape"), req |-> None]
  ELSE [ panic |-> FALSE, err |-> NoErr,
         req |-> Some([ Method |-> method, Path |-> url, RawQuery |-> query,
                        Header |-> ("circle-token" :> <<c.token>>)
                                   @@ ("Accept" :> <<"application/json">>) ]) ]

RefContext == <<"c", "o", "n", "t", "e", "x", "t">>

\* The error of queryURL.Parse is overwritten unread: a failed join leaves
\* queryURL nil, and queryURL.String() dereferences it.
newDeleteContextRequest(c, contextID) ==
  LET base == urlParse(c.server) IN
  IF base.err # NoErr THEN [panic |-> FALSE, err |-> base.err, req |-> None]
  ELSE LET queryURL == urlJoin(base.url[1], RefContext \o <<"/">> \o contextID) IN
       IF queryURL.url = None THEN [panic |-> TRUE, err |-> NoErr, req |-> None]
       ELSE newHTTPRequest(c, "DELETE", queryURL.url[1], <<>>)

AddIfPresent_nonEmpty(v, key, field) ==
  IF field # None /\ field[1] # <<>> THEN ValuesAdd(v, key, field[1]) ELSE v

\* if params.X != nil { urlParams.Add(key, *params.X) }
AddIfPresent(v, key, field) == IF field # None THEN ValuesAdd(v, key, field[1]) ELSE v

listContextsValues(params) ==
  AddIfPresent(
    AddIfPresent(
      AddIfPresent(
        AddIfPresent(<<>>, KeyOwnerID, params.OwnerID),
        KeyOwnerSlug, params.OwnerSlug),
      KeyOwnerType, params.OwnerType),
    KeyPageToken, params.PageToken)

newListContextsRequest(c, params) ==
  LET base == urlParse(c.server) IN
  IF base.err # NoErr THEN [panic |-> FALSE, err |-> base.err, req |-> None]
  ELSE LET queryURL == urlJoin(base.url[1], RefContext) IN
       IF queryURL.err # NoErr THEN [panic |-> FALSE, err |-> queryURL.err, req |-> None]
       ELSE newHTTPRequest(c, "GET", queryURL.url[1],
                           ValuesEncode(listContextsValues(params)))

\* ------------------------------------------------------- response decoder

\* A response body as encoding/json sees it: not JSON at all (valid = FALSE),
\* or a JSON object with an optional "message", its "items" and an optional
\* "next_page_token".  A field that is null decodes like one that is absent.
GarbageBody == [valid |-> FALSE, message |-> None, items |-> <<>>, next_page_token |-> None]

ErrorBodies ==
  { [valid |-> TRUE, message |-> Some(m), items |-> <<>>, next_page_token |-> None] :
      m \in Messages }

PageBodies(room, more) ==
  { [valid |-> TRUE, message |-> None, items |-> it, next_page_token |-> n] :
      it \in SeqsUpTo(ItemUniverse, room),
      n \in IF more THEN Opt(PageTokens) ELSE {None} }

\* What the server may answer: `room` items are left of the MaxItems it serves
\* to one traversal, and `more` says whether the chain may go on.
ServerBodies(status, room, more) ==
  {GarbageBody} \cup ErrorBodies
    \cup IF status = 200 THEN PageBodies(room, more) ELSE PageBodies(0, FALSE)

StatusOK == 200

\* json.Unmarshal(bodyBytes, &dest) with dest an ErrorResponse, and then
\* errors.New(*dest.Message): Message is nil when the field is absent or null.
errorResponse(body) ==
  IF ~body.valid THEN [panic |-> FALSE, err |-> Err("json", "unmarshal"), page |-> None]
  ELSE IF body.message = None THEN [panic |-> TRUE, err |-> NoErr, page |-> None]
  ELSE [panic |-> FALSE, err |-> Err("remote", body.message[1]), page |-> None]

\* listContexts, from the status check on.
listContextsDecode(status, body) ==
  IF status # StatusOK THEN errorResponse(body)
  ELSE IF ~body.valid
       THEN [panic |-> FALSE, err |-> Err("json", "unmarshal"), page |-> None]
       ELSE [ panic |-> FALSE, err |-> NoErr,
              page |-> Some([Items |-> body.items,
                             NextPageToken |-> body.next_page_token]) ]

deleteContextDecode_2xx(status, body) ==
  IF status >= 300 THEN errorResponse(body)
  ELSE [panic |-> FALSE, err |-> NoErr, page |-> None]

\* DeleteContext, from the status check on.
deleteContextDecode(status, body) ==
  IF status # StatusOK THEN errorResponse(body)
  ELSE [panic |-> FALSE, err |-> NoErr, page |-> None]

\* ------------------------------------------------------- pagination engine

NoResult == [contexts |-> <<>>, context |-> None, err |-> NoErr]

appendAfter_swapped(contexts, after) == after \o contexts

appendAfter(contexts, after) == contexts \o after

listAllContextsReturn_partial(contexts, after, err) ==
  IF err # NoErr THEN [contexts |-> contexts, err |-> err]
  ELSE [contexts |-> appendAfter(contexts, after), err |-> NoErr]

\* The return of one frame of listAllContexts that made the recursive call.
listAllContextsReturn(contexts, after, err) ==
  IF err # NoErr THEN [contexts |-> <<>>, err |-> err]
  ELSE [contexts |-> appendAfter(contexts, after), err |-> NoErr]

\* The innermost frame returns (contexts, err); every frame of the stack,
\* innermost first, then takes it as `after, err` and returns in its turn.
RECURSIVE listAllContextsUnwind(_, _, _)
listAllContextsUnwind(stk, contexts, err) ==
  IF stk = <<>> THEN [contexts |-> contexts, err |-> err]
  ELSE LET r == listAllContextsReturn(stk[Len(stk)], contexts, err)
       IN  listAllContextsUnwind(SubSeq(stk, 1, Len(stk) - 1), r.contexts, r.err)

\* Contexts hands out the address of the slice it got, and the error.
ContextsReturn(r) == [contexts |-> r.contexts, context |-> None, err |-> r.err]

listAllContexts_noAdvance(prm, stk, out) ==
  IF out.err # NoErr
  THEN [ pc |-> "done", params |-> prm, stack |-> <<>>,
         result |-> ContextsReturn(listAllContextsUnwind(stk, <<>>, out.err)) ]
  ELSE LET resp == out.page[1] IN
       IF resp.NextPageToken # None
       THEN [ pc |-> "call", params |-> prm,
              stack |-> Append(stk, resp.Items), result |-> NoResult ]
       ELSE [ pc |-> "done", params |-> prm, stack |-> <<>>,
              result |-> ContextsReturn(listAllContextsUnwind(stk, resp.Items, NoErr)) ]

\* One frame of listAllContexts, from the return of listContexts on.
listAllContexts(prm, stk, out) ==
  IF out.err # NoErr
  THEN [ pc |-> "done", params |-> prm, stack |-> <<>>,
         result |-> ContextsReturn(listAllContextsUnwind(stk, <<>>, out.err)) ]
  ELSE LET resp == out.page[1] IN
       IF resp.NextPageToken # None
       THEN [ pc |-> "call", params |-> [prm EXCEPT !.PageToken = resp.NextPageToken],
              stack |-> Append(stk, resp.Items), result |-> NoResult ]
       ELSE [ pc |-> "done", params |-> prm, stack |-> <<>>,
              result |-> ContextsReturn(listAllContextsUnwind(stk, resp.Items, NoErr)) ]

Matches(items, name) == {i \in 1..Len(items) : items[i].Name = name}

findByName_last(items, name) ==
  IF Matches(items, name) = {} THEN None
  ELSE Some(items[CHOOSE i \in Matches(items, name) :
                    \A j \in Matches(items, name) : i >= j])

\* The range loop: the first item, in slice order, with the name.
findByName(items, name) ==
  IF Matches(items, name) = {} THEN None
  ELSE Some(items[CHOOSE i \in Matches(items, name) :
                    \A j \in Matches(items, name) : i <= j])

\* The return of one frame of getContextByName that made the recursive call.
getContextByNameReturn(context, err) ==
  IF err # NoErr THEN [context |-> None, err |-> err]
  ELSE [context |-> context, err |-> NoErr]

RECURSIVE getContextByNameUnwind(_, _, _)
getContextByNameUnwind(stk, context, err) ==
  IF stk = <<>> THEN [contexts |-> <<>>, context |-> context, err |-> err]
  ELSE LET r == getContextByNameReturn(context, err)
       IN  getContextByNameUnwind(SubSeq(stk, 1, Len(stk) - 1), r.context, r.err)

getContextByName_eager(prm, stk, out, name) ==
  IF out.err # NoErr
  THEN [ pc |-> "done", params |-> prm, stack |-> <<>>,
         result |-> getContextByNameUnwind(stk, None, out.err) ]
  ELSE LET resp == out.page[1] IN
       IF resp.NextPageToken # None
       THEN [ pc |-> "call", params |-> [prm EXCEPT !.PageToken = resp.NextPageToken],
              stack |-> Append(stk, resp.Items), result |-> NoResult ]
       ELSE IF findByName(resp.Items, name) # None
       THEN [ pc |-> "done", params |-> prm, stack |-> <<>>,
              result |-> getContextByNameUnwind(stk, findByName(resp.Items, name), NoErr) ]
       ELSE [ pc |-> "done", params |-> prm, stack |-> <<>>,
              result |-> getContextByNameUnwind(stk, None, Err("notfound", name)) ]

\* One frame of getContextByName, from the return of listContexts on.
getContextByName(prm, stk, out, name) ==
  IF out.err # NoErr
  THEN [ pc |-> "done", params |-> prm, stack |-> <<>>,
         result |-> getContextByNameUnwind(stk, None, out.err) ]
  ELSE LET resp == out.page[1] IN
       IF findByName(resp.Items, name) # None
       THEN [ pc |-> "done", params |-> prm, stack |-> <<>>,
              result |-> getContextByNameUnwind(stk, findByName(resp.Items, name), NoErr) ]
       ELSE IF resp.NextPageToken # None
       THEN [ pc |-> "call", params |-> [prm EXCEPT !.PageToken = resp.NextPageToken],
              stack |-> Append(stk, resp.Items), result |-> NoResult ]
       ELSE [ pc |-> "done", params |-> prm, stack |-> <<>>,
              result |-> getContextByNameUnwind(stk, None, Err("notfound", name)) ]

\* ------------------------------------------------------------------- state

VARIABLES
  given,    \* the arguments NewClient was called with
  client,   \* the Client: token, server, transport handle
  pc,       \* per caller: where its operation stands
  op,       \* per caller: the operation it runs
  args,     \* per caller: the operation's name and contextID arguments
  params,   \* per caller: the listContextsParams of its traversal
  stack,    \* per caller: resp.Items of every frame waiting on a recursive call
  req,      \* per caller: the request of the current fetch
  resp,     \* per caller: the http.Response of the current fetch
  result,   \* per caller: what the operation returned
  fetched,  \* per caller: Items of the pages decoded so far, in fetch order
  nsent     \* per caller: the requests handed to the transport so far

vars == <<given, client, pc, op, args, params, stack, req, resp, result, fetched, nsent>>

callvars == <<pc, op, args, params, stack, req, resp, result, fetched, nsent>>

NoArgs == [name |-> "", contextID |-> <<>>]

NoClient == [token |-> "", server |-> <<>>, client |-> "nil"]

ListOps == {"Contexts", "ContextByName", "listAllContexts"}

Idle ==
  /\ pc = [p \in Procs |-> "idle"]
  /\ op = [p \in Procs |-> "none"]
  /\ args = [p \in Procs |-> NoArgs]
  /\ params = [p \in Procs |-> NoParams]
  /\ stack = [p \in Procs |-> <<>>]
  /\ req = [p \in Procs |-> None]
  /\ resp = [p \in Procs |-> None]
  /\ result = [p \in Procs |-> NoResult]
  /\ fetched = [p \in Procs |-> <<>>]
  /\ nsent = [p \in Procs |-> 0]

Init ==
  /\ \E s \in Servers, t \in Tokens :
        /\ given = [server |-> s, token |-> t]
        /\ client = NewClient(s, t)
  /\ Idle

\* The operations block their caller; callers take turns.
Alone(p) == \A q \in Procs \ {p} : pc[q] = "idle"

Served(p) == Len(Flatten(fetched[p]))

\* ----------------------------------------------------------------- actions

Contexts(p) ==
  /\ pc[p] = "idle" /\ Alone(p)
  /\ \E org \in Orgs, vcs \in VCSs :
        params' = [params EXCEPT ![p] = [NoParams EXCEPT !.OwnerSlug = Some(toSlug(org, vcs))]]
  /\ pc' = [pc EXCEPT ![p] = "call"]
  /\ op' = [op EXCEPT ![p] = "Contexts"]
  /\ UNCHANGED <<given, client, args, stack, req, resp, result, fetched, nsent>>

ContextByName(p) ==
  /\ pc[p] = "idle" /\ Alone(p)
  /\ \E org \in Orgs, vcs \in VCSs, name \in Names :
        /\ params' = [params EXCEPT ![p] = [NoParams EXCEPT !.OwnerSlug = Some(toSlug(org, vcs))]]
        /\ args' = [args EXCEPT ![p] = [NoArgs EXCEPT !.name = name]]
  /\ pc' = [pc EXCEPT ![p] = "call"]
  /\ op' = [op EXCEPT ![p] = "ContextByName"]
  /\ UNCHANGED <<given, client, stack, req, resp, result, fetched, nsent>>

DeleteContext(p) ==
  /\ pc[p] = "idle" /\ Alone(p)
  /\ \E id \in ContextIDs : args' = [args EXCEPT ![p] = [NoArgs EXCEPT !.contextID = id]]
  /\ pc' = [pc EXCEPT ![p] = "call"]
  /\ op' = [op EXCEPT ![p] = "DeleteContext"]
  /\ UNCHANGED <<given, client, params, stack, req, resp, result, fetched, nsent>>

ListOutcome_sharedParams(p, out) ==
  IF out.panic
  THEN /\ pc' = [pc EXCEPT ![p] = "panic"]
       /\ UNCHANGED <<params, stack, result, fetched>>
  ELSE LET step == IF op[p] = "ContextByName"
                   THEN getContextByName(params[p], stack[p], out, args[p].name)
                   ELSE listAllContexts(params[p], stack[p], out)
       IN  /\ pc' = [pc EXCEPT ![p] = step.pc]
           /\ params' = [q \in Procs |-> step.params]
           /\ stack' = [stack EXCEPT ![p] = step.stack]
           /\ result' = [result EXCEPT ![p] = step.result]
           /\ fetched' = [fetched EXCEPT ![p] =
                            IF out.page # None THEN Append(@, out.page[1].Items) ELSE @]

\* listContexts has returned `out` to the frame of the traversal that called it.
ListOutcome(p, out) ==
  IF out.panic
  THEN /\ pc' = [pc EXCEPT ![p] = "panic"]
       /\ UNCHANGED <<params, stack, result, fetched>>
  ELSE LET step == IF op[p] = "ContextByName"
                   THEN getContextByName(params[p], stack[p], out, args[p].name)
                   ELSE listAllContexts(params[p], stack[p], out)
       IN  /\ pc' = [pc EXCEPT ![p] = step.pc]
           /\ params' = [params EXCEPT ![p] = step.params]
           /\ stack' = [stack EXCEPT ![p] = step.stack]
           /\ result' = [result EXCEPT ![p] = step.result]
           /\ fetched' = [fetched EXCEPT ![p] =
                            IF out.page # None THEN Append(@, out.page[1].Items) ELSE @]

\* DeleteContext has `out` in hand and returns.
DeleteOutcome(p, out) ==
  /\ pc' = [pc EXCEPT ![p] = IF out.panic THEN "panic" ELSE "done"]
  /\ result' = [result EXCEPT ![p] = [NoResult EXCEPT !.err = out.err]]
  /\ UNCHANGED <<params, stack, fetched>>

Outcome(p, out) ==
  IF op[p] = "DeleteContext" THEN DeleteOutcome(p, out) ELSE ListOutcome(p, out)

ListRequest_consumesToken(p) ==
  /\ pc[p] = "call" /\ op[p] \in ListOps
  /\ LET r == newListContextsRequest(client, params[p]) IN
     IF r.req = None
     THEN /\ Outcome(p, [panic |-> r.panic, err |-> r.err, page |-> None])
          /\ UNCHANGED <<req, resp, nsent>>
     ELSE /\ req' = [req EXCEPT ![p] = r.req]
          /\ resp' = [resp EXCEPT ![p] = None]
          /\ nsent' = [nsent EXCEPT ![p] = @ + 1]
          /\ pc' = [pc EXCEPT ![p] = "inflight"]
          /\ params' = [params EXCEPT ![p].PageToken = None]
          /\ UNCHANGED <<stack, result, fetched>>
  /\ UNCHANGED <<given, client, op, args>>

\* listContexts, up to c.client.Do(req).
ListRequest(p) ==
  /\ pc[p] = "call" /\ op[p] \in ListOps
  /\ LET r == newListContextsRequest(client, params[p]) IN
     IF r.req = None
     THEN /\ Outcome(p, [panic |-> r.panic, err |-> r.err, page |-> None])
          /\ UNCHANGED <<req, resp, nsent>>
     ELSE /\ req' = [req EXCEPT ![p] = r.req]
          /\ resp' = [resp EXCEPT ![p] = None]
          /\ nsent' = [nsent EXCEPT ![p] = @ + 1]
          /\ pc' = [pc EXCEPT ![p] = "inflight"]
          /\ UNCHANGED <<params, stack, result, fetched>>
  /\ UNCHANGED <<given, client, op, args>>

DeleteRequest_keepsURL(p) ==
  /\ pc[p] = "call" /\ op[p] = "DeleteContext"
  /\ LET r == newDeleteContextRequest(client, args[p].contextID) IN
     IF r.req = None
     THEN /\ Outcome(p, [panic |-> r.panic, err |-> r.err, page |-> None])
          /\ UNCHANGED <<client, req, resp, nsent>>
     ELSE /\ req' = [req EXCEPT ![p] = r.req]
          /\ resp' = [resp EXCEPT ![p] = None]
          /\ nsent' = [nsent EXCEPT ![p] = @ + 1]
          /\ pc' = [pc EXCEPT ![p] = "inflight"]
          /\ client' = [client EXCEPT !.server = r.req[1].Path]
          /\ UNCHANGED <<params, stack, result, fetched>>
  /\ UNCHANGED <<given, op, args>>

\* DeleteContext, up to c.client.Do(req).
DeleteRequest(p) ==
  /\ pc[p] = "call" /\ op[p] = "DeleteContext"
  /\ LET r == newDeleteContextRequest(client, args[p].contextID) IN
     IF r.req = None
     THEN /\ Outcome(p, [panic |-> r.panic, err |-> r.err, page |-> None])
          /\ UNCHANGED <<req, resp, nsent>>
     ELSE /\ req' = [req EXCEPT ![p] = r.req]
          /\ resp' = [resp EXCEPT ![p] = None]
          /\ nsent' = [nsent EXCEPT ![p] = @ + 1]
          /\ pc' = [pc EXCEPT ![p] = "inflight"]
          /\ UNCHANGED <<params, stack, result, fetched>>
  /\ UNCHANGED <<given, client, op, args>>

DoError_retry(p) ==
  /\ pc[p] = "inflight"
  /\ pc' = [pc EXCEPT ![p] = "call"]
  /\ UNCHANGED <<given, client, op, args, params, stack, req, resp, result, fetched, nsent>>

\* c.client.Do(req) fails: the transport's error is returned as it is.
DoError(p) ==
  /\ pc[p] = "inflight"
  /\ Outcome(p, [panic |-> FALSE, err |-> Err("transport", "Do"), page |-> None])
  /\ UNCHANGED <<given, client, op, args, req, resp, nsent>>

\* c.client.Do(req) returns a response: a status, and a body yet to be read.
DoResponse(p) ==
  /\ pc[p] = "inflight"
  /\ \E status \in StatusCodes :
        resp' = [resp EXCEPT ![p] = Some([StatusCode |-> status, Body |-> None, Closed |-> FALSE])]
  /\ pc' = [pc EXCEPT ![p] = "body"]
  /\ UNCHANGED <<given, client, op, args, params, stack, req, result, fetched, nsent>>

Close_onSuccess(r, out) == [r EXCEPT !.Closed = ~out.panic /\ out.err = NoErr]

\* defer resp.Body.Close(): registered right after ioutil.ReadAll, before its
\* error is looked at, so it runs when the function returns or panics,
\* whatever the outcome `out` is.
Close(r, out) == [r EXCEPT !.Closed = TRUE]

\* ioutil.ReadAll fails; the deferred Close runs as the function returns.
ReadError(p) ==
  /\ pc[p] = "body"
  /\ LET out == [panic |-> FALSE, err |-> Err("read", "ReadAll"), page |-> None] IN
        /\ resp' = [resp EXCEPT ![p] = Some(Close(@[1], out))]
        /\ Outcome(p, out)
  /\ UNCHANGED <<given, client, op, args, req, nsent>>

\* ioutil.ReadAll returns the body; the rest of listContexts or DeleteContext
\* follows, and the deferred Close runs as the function returns or panics.
ReadBodyFrom(p, bodies) ==
  /\ pc[p] = "body"
  /\ \E body \in bodies :
        LET out == IF op[p] = "DeleteContext"
                   THEN deleteContextDecode(resp[p][1].StatusCode, body)
                   ELSE listContextsDecode(resp[p][1].StatusCode, body)
        IN  /\ resp' = [resp EXCEPT ![p] = Some(Close([@[1] EXCEPT !.Body = Some(body)], out))]
            /\ Outcome(p, out)
  /\ UNCHANGED <<given, client, op, args, req, nsent>>

\* The server answers with any body its bounds allow.
ReadBody(p) ==
  /\ pc[p] = "body"
  /\ ReadBodyFrom(p, ServerBodies(resp[p][1].StatusCode,
                                  IF op[p] = "DeleteContext" THEN 0 ELSE MaxItems - Served(p),
                                  Len(fetched[p]) + 1 < MaxPages))

\* The caller has its answer; it may call again.
Return(p) ==
  /\ pc[p] = "done"
  /\ pc' = [pc EXCEPT ![p] = "idle"]
  /\ op' = [op EXCEPT ![p] = "none"]
  /\ args' = [args EXCEPT ![p] = NoArgs]
  /\ params' = [params EXCEPT ![p] = NoParams]
  /\ stack' = [stack EXCEPT ![p] = <<>>]
  /\ req' = [req EXCEPT ![p] = None]
  /\ resp' = [resp EXCEPT ![p] = None]
  /\ result' = [result EXCEPT ![p] = NoResult]
  /\ fetched' = [fetched EXCEPT ![p] = <<>>]
  /\ nsent' = [nsent EXCEPT ![p] = 0]
  /\ UNCHANGED <<given, client>>

Next ==
  \E p \in Procs :
     \/ Contexts(p)
     \/ ContextByName(p)
     \/ DeleteContext(p)
     \/ ListRequest(p)
     \/ DeleteRequest(p)
     \/ DoError(p)
     \/ DoResponse(p)
     \/ ReadError(p)
     \/ ReadBody(p)
     \/ Return(p)

Spec == Init /\ [][Next]_vars

\* ------------------------------------------- NewClient on its own (SpecNew)

ServerInputs == SeqsUpTo(ServerAlphabet, MaxServerLen)

InitNew ==
  /\ given \in [server : ServerInputs, token : Tokens]
  /\ client = NoClient
  /\ Idle

Construct ==
  /\ client = NoClient
  /\ client' = NewClient(given.server, given.token)
  /\ UNCHANGED <<given, callvars>>

NextNew == Construct

SpecNew == InitNew /\ [][NextNew]_vars

\* ----------------------- the listing request on its own (SpecQuery)

QueryValues == {<<>>, <<"v">>, <<"/">>}

AllParams ==
  [ OwnerID : Opt(QueryValues), OwnerSlug : Opt(QueryValues),
    OwnerType : Opt(QueryValues), PageToken : Opt(QueryValues) ]

\* listContexts is entered with any listContextsParams.
InitQuery ==
  /\ \E s \in Servers, t \in Tokens :
        /\ given = [server |-> s, token |-> t]
        /\ client = NewClient(s, t)
  /\ \E p0 \in Procs, prm \in AllParams :
        /\ pc = [p \in Procs |-> IF p = p0 THEN "call" ELSE "idle"]
        /\ op = [p \in Procs |-> IF p = p0 THEN "listAllContexts" ELSE "none"]
        /\ params = [p \in Procs |-> IF p = p0 THEN prm ELSE NoParams]
  /\ args = [p \in Procs |-> NoArgs]
  /\ stack = [p \in Procs |-> <<>>]
  /\ req = [p \in Procs |-> None]
  /\ resp = [p \in Procs |-> None]
  /\ result = [p \in Procs |-> NoResult]
  /\ fetched = [p \in Procs |-> <<>>]
  /\ nsent = [p \in Procs |-> 0]

NextQuery == \E p \in Procs : ListRequest(p)

SpecQuery == InitQuery /\ [][NextQuery]_vars

\* ------------------------- operations under way at the same time (SpecConc)

\* The longest chain the server serves to one traversal here.
ConcPages == 2

\* The server tells the callers apart: each is given pages of its own item
\* and its own next-page-token, so state leaking from one operation into
\* another would show.
ConcToken(p) == IF p = "c1" THEN <<"p">> ELSE <<"/">>

ConcItem(p) == IF p = "c1" THEN [ID |-> "i1", Name |-> "a"] ELSE [ID |-> "i2", Name |-> "a"]

ConcPageBodies(p) ==
  { [valid |-> TRUE, message |-> None, items |-> it, next_page_token |-> n] :
      it \in {<<>>, <<ConcItem(p)>>},
      n \in IF Len(fetched[p]) + 1 < ConcPages THEN {None, Some(ConcToken(p))} ELSE {None} }

ConcBodies(p) ==
  {GarbageBody} \cup ErrorBodies
    \cup IF resp[p][1].StatusCode = StatusOK /\ op[p] # "DeleteContext"
         THEN ConcPageBodies(p) ELSE PageBodies(0, FALSE)

\* A caller calls any of the public operations, whatever the others do.
ConcCall(p) ==
  /\ pc[p] = "idle"
  /\ \/ \E org \in Orgs, vcs \in VCSs :
           /\ params' = [params EXCEPT ![p] = [NoParams EXCEPT !.OwnerSlug = Some(toSlug(org, vcs))]]
           /\ op' = [op EXCEPT ![p] = "Contexts"]
           /\ UNCHANGED args
     \/ \E org \in Orgs, vcs \in VCSs, name \in Names :
           /\ params' = [params EXCEPT ![p] = [NoParams EXCEPT !.OwnerSlug = Some(toSlug(org, vcs))]]
           /\ args' = [args EXCEPT ![p] = [NoArgs EXCEPT !.name = name]]
           /\ op' = [op EXCEPT ![p] = "ContextByName"]
     \/ \E id \in ContextIDs :
           /\ args' = [args EXCEPT ![p] = [NoArgs EXCEPT !.contextID = id]]
           /\ op' = [op EXCEPT ![p] = "DeleteContext"]
           /\ UNCHANGED params
  /\ pc' = [pc EXCEPT ![p] = "call"]
  /\ UNCHANGED <<given, client, stack, req, resp, result, fetched, nsent>>

ConcReadBody(p) ==
  /\ pc[p] = "body"
  /\ ReadBodyFrom(p, ConcBodies(p))

\* A panic that nothing recovers ends the whole process, every caller with it.
NoCrash == \A q \in Procs : pc[q] # "panic"

NextConc ==
  /\ NoCrash
  /\ \E p \in Procs :
        \/ ConcCall(p)
        \/ ListRequest(p)
        \/ DeleteRequest(p)
        \/ DoError(p)
        \/ DoResponse(p)
        \/ ReadError(p)
        \/ ConcReadBody(p)
        \/ Return(p)

SpecConc == Init /\ [][NextConc]_vars

\* ------------------------------------------------------------------ claims

Done(p, o) == pc[p] = "done" /\ op[p] = o

\* Every request handed to the transport was answered by a page that decoded.
AllFetched(p) == nsent[p] >= 1 /\ Len(fetched[p]) = nsent[p]

LastBody(p) == resp[p][1].Body[1]

\* The body of the last response has been read.
BodyRead(p) == resp[p] # None /\ resp[p][1].Body # None

\* C1: when Contexts returns without error, every fetch of the chain gave a
\* page, the last page had no next-page-token, and the sequence returned is
\* the concatenation, in fetch order, of the pages' items, each page in the
\* server's order; and Contexts returns without error whenever every fetch
\* gave a page.
C1_CollectAllConcatenates ==
  \A p \in Procs :
     Done(p, "Contexts") =>
        /\ result[p].err = NoErr <=> AllFetched(p)
        /\ result[p].err = NoErr =>
              /\ result[p].contexts = Flatten(fetched[p])
              /\ LastBody(p).next_page_token = None

C1_Witness ==
  \E p \in Procs :
     /\ Done(p, "Contexts") /\ result[p].err = NoErr
     /\ Len(fetched[p]) = 3
     /\ Len(fetched[p][1]) = 2 /\ Len(fetched[p][2]) = 0 /\ Len(fetched[p][3]) = 1
     /\ fetched[p][1][1] = fetched[p][3][1]
     /\ fetched[p][1][1] # fetched[p][1][2]

\* The item with the smallest (page index, in-page index) among those of the
\* name: the first of them in the concatenation of the pages.
FirstNamed(pages, name) ==
  LET all == Flatten(pages)
      m   == Matches(all, name)
  IN  IF m = {} THEN None ELSE Some(all[CHOOSE i \in m : \A j \in m : i <= j])

\* C2: when ContextByName returns and no fetch failed, the result is the item
\* of the target name at the smallest (page index, in-page index) if there is
\* one, and else the NotFound error; NotFound is returned only once a page
\* with no next-page-token has been fetched.
C2_FindFirstOrNotFound ==
  \A p \in Procs :
     Done(p, "ContextByName") /\ AllFetched(p) =>
        LET first == FirstNamed(fetched[p], args[p].name) IN
        /\ first # None => result[p].context = first /\ result[p].err = NoErr
        /\ first = None =>
              /\ result[p].context = None
              /\ result[p].err = Err("notfound", args[p].name)
              /\ LastBody(p).next_page_token = None

C2_Witness ==
  \E p \in Procs :
     /\ Done(p, "ContextByName") /\ AllFetched(p)
     /\ args[p].name = "a"
     /\ fetched[p] = << <<>>, << [ID |-> "i3", Name |-> "b"],
                                  [ID |-> "i2", Name |-> "a"],
                                  [ID |-> "i1", Name |-> "a"] >> >>
     /\ result[p].context = Some([ID |-> "i2", Name |-> "a"])

C2_WitnessNotFound ==
  \E p \in Procs :
     /\ Done(p, "ContextByName") /\ AllFetched(p)
     /\ Len(fetched[p]) = 3 /\ Served(p) = 3
     /\ result[p].err = Err("notfound", "b")

\* The error of the fetch that failed, read off the response it got.
FetchError(p) ==
  IF nsent[p] = 0 THEN Err("url", "invalid URL escape")
  ELSE IF resp[p] = None THEN Err("transport", "Do")
  ELSE IF resp[p][1].Body = None THEN Err("read", "ReadAll")
  ELSE listContextsDecode(resp[p][1].StatusCode, LastBody(p)).err

\* C3: when a fetch of the chain fails with an error, Contexts returns the
\* error of that fetch and a sequence with no item in it, whatever the earlier
\* pages held; a traversal that has not returned has handed over no item.
C3_CollectAllOrNothing ==
  \A p \in Procs :
     op[p] = "Contexts" =>
        /\ pc[p] = "done" /\ ~AllFetched(p) =>
              /\ result[p].err # NoErr
              /\ result[p].err = FetchError(p)
              /\ result[p].contexts = <<>>
        /\ pc[p] # "done" => result[p] = NoResult

C3_Witness ==
  \E p \in Procs :
     /\ Done(p, "Contexts")
     /\ nsent[p] = 3 /\ Len(fetched[p]) = 2
     /\ Len(fetched[p][1]) >= 1 /\ Len(fetched[p][2]) >= 1
     /\ result[p].err = Err("json", "unmarshal")
     /\ result[p].contexts = <<>>

\* The body cannot be decoded into a message: it is no JSON, or it is JSON
\* whose message is absent or null.
Undecodable(body) == ~body.valid \/ body.message = None

\* C4: a response with a status other than 200 whose body cannot be decoded
\* into a message ends the listing fetch and DeleteContext with the malformed
\* error response error; no caller crashes on it.
C4_MalformedErrorResponse ==
  \A p \in Procs :
     BodyRead(p) /\ resp[p][1].StatusCode # StatusOK /\ Undecodable(LastBody(p)) =>
        /\ pc[p] = "done"
        /\ result[p].err = Err("json", "unmarshal")

\* C5: DeleteContext hands at most one request to the transport, a DELETE;
\* when it returns with the response read it has handed over exactly one,
\* status 200 gives no error whatever the body, and any other status with a
\* body that carries a message gives the remote error with that message.
C5_DeleteContextMapsResponse ==
  \A p \in Procs :
     op[p] = "DeleteContext" =>
        /\ nsent[p] <= 1
        /\ req[p] # None => req[p][1].Method = "DELETE"
        /\ pc[p] = "done" /\ BodyRead(p) =>
              /\ nsent[p] = 1
              /\ result[p].contexts = <<>> /\ result[p].context = None
              /\ resp[p][1].StatusCode = StatusOK => result[p].err = NoErr
              /\ resp[p][1].StatusCode # StatusOK /\ ~Undecodable(LastBody(p)) =>
                    result[p].err = Err("remote", LastBody(p).message[1])

C5_Witness ==
  \E p \in Procs :
     /\ Done(p, "DeleteContext") /\ BodyRead(p)
     /\ resp[p][1].StatusCode = 201
     /\ result[p].err = Err("remote", "m2")

\* The reference the operation joins to the base URL.
PathRef(p) ==
  IF op[p] = "DeleteContext" THEN RefContext \o <<"/">> \o args[p].contextID
  ELSE RefContext

BadURL(p) == urlParseFails(client.server) \/ urlParseFails(PathRef(p))

\* C6: an operation whose base URL or joined path cannot be parsed ends its
\* request construction by returning the invalid URL error, with no request
\* handed to the transport, and in no other way.
C6_InvalidURL ==
  \A p \in Procs :
     op[p] # "none" /\ pc[p] # "call" /\ BadURL(p) =>
        /\ pc[p] = "done"
        /\ result[p].err = Err("url", "invalid URL escape")
        /\ nsent[p] = 0 /\ req[p] = None

ParamKeys == <<KeyOwnerID, KeyOwnerSlug, KeyOwnerType, KeyPageToken>>

ParamFields(prm) == <<prm.OwnerID, prm.OwnerSlug, prm.OwnerType, prm.PageToken>>

\* The query the claim describes: one <<key, value>> per present field, in
\* the order of ParamKeys.
ExpectedQuery(prm) ==
  Flatten([i \in 1..4 |->
     IF ParamFields(prm)[i] = None THEN <<>>
     ELSE << <<ParamKeys[i], QueryEscape(ParamFields(prm)[i][1])>> >>])

\* C7: the query of a listing request holds one parameter for each present
\* field of the params and none for an absent one, in the order owner-id,
\* owner-slug, owner-type, page-token; a field present with an empty value is
\* sent with an empty value.
C7_QueryHasPresentFields ==
  \A p \in Procs :
     pc[p] = "inflight" /\ op[p] \in ListOps =>
        /\ req[p][1].RawQuery = ExpectedQuery(params[p])
        /\ \A i \in 1..4 :
              ParamFields(params[p])[i] = Some(<<>>) =>
                 \E k \in 1..Len(req[p][1].RawQuery) :
                    req[p][1].RawQuery[k] = <<ParamKeys[i], <<>>>>

C7_Witness ==
  \E p \in Procs :
     /\ pc[p] = "inflight"
     /\ params[p].OwnerID = Some(<<>>) /\ params[p].OwnerSlug = None
     /\ params[p].OwnerType = Some(<<"/">>) /\ params[p].PageToken = Some(<<"v">>)
     /\ Len(req[p][1].RawQuery) = 3

\* C8: every request handed to the transport carries the circle-token header
\* with the token the client was constructed with, and Accept:
\* application/json.
C8_AuthAndAcceptHeaders ==
  \A p \in Procs :
     /\ nsent[p] > 0 => req[p] # None
     /\ req[p] # None =>
           LET h == req[p][1].Header IN
           /\ "circle-token" \in DOMAIN h /\ h["circle-token"] = <<given.token>>
           /\ "Accept" \in DOMAIN h /\ h["Accept"] = <<"application/json">>

C8_Witness ==
  \E p \in Procs :
     /\ pc[p] = "inflight" /\ op[p] = "ContextByName" /\ nsent[p] = 3
     /\ req[p][1].Header["circle-token"] = <<"tokB">>

C8_WitnessDelete ==
  \E p \in Procs :
     /\ pc[p] = "inflight" /\ op[p] = "DeleteContext"
     /\ req[p][1].Header["circle-token"] = <<"tokA">>

\* C9: the server NewClient stores ends with "/"; it is the input itself
\* exactly when the input ends with "/", and the input with one "/" appended
\* otherwise; constructing again from the stored server changes nothing.
C9_NewClientNormalizes ==
  client # NoClient =>
     /\ HasSuffixSlash(client.server)
     /\ client.server = given.server <=> HasSuffixSlash(given.server)
     /\ client.server # given.server => client.server = given.server \o <<"/">>
     /\ NewClient(client.server, client.token) = client
     /\ client.token = given.token

C9_Witness ==
  /\ client # NoClient
  /\ given.server = <<"h", "/", "h">>
  /\ client.server = <<"h", "/", "h", "/">>

C9_WitnessKept ==
  /\ client # NoClient
  /\ given.server = <<"h", "/">>
  /\ client.server = <<"h", "/">>

HasNamed(items, name) == Matches(items, name) # {}

\* C10: in a ContextByName traversal, a fetched page that holds an item of
\* the target name is the last page fetched: the traversal has returned, and
\* the requests handed to the transport number the index of that page.
C10_FindShortCircuits ==
  \A p \in Procs :
     op[p] = "ContextByName" =>
        \A k \in 1..Len(fetched[p]) :
           HasNamed(fetched[p][k], args[p].name) =>
              /\ k = Len(fetched[p])
              /\ nsent[p] = k
              /\ pc[p] = "done"
              /\ result[p].err = NoErr

C10_Witness ==
  \E p \in Procs :
     /\ Done(p, "ContextByName")
     /\ Len(fetched[p]) = 2 /\ nsent[p] = 2
     /\ HasNamed(fetched[p][2], args[p].name)
     /\ LastBody(p).next_page_token # None

\* The error DeleteContext has to return for the answer it got.
DeleteError(p) ==
  IF nsent[p] = 0 THEN Err("url", "invalid URL escape")
  ELSE IF resp[p] = None THEN Err("transport", "Do")
  ELSE IF resp[p][1].Body = None THEN Err("read", "ReadAll")
  ELSE deleteContextDecode(resp[p][1].StatusCode, LastBody(p)).err

\* The operation has returned after a fetch of its own failed.
ReturnedAfterFailure(p) ==
  /\ pc[p] = "done" /\ nsent[p] >= 1
  /\ IF op[p] = "DeleteContext" THEN DeleteError(p) # NoErr ELSE ~AllFetched(p)

C11_State ==
  \A p \in Procs :
     /\ nsent[p] <= Len(fetched[p]) + 1
     /\ op[p] = "DeleteContext" => nsent[p] <= 1
     /\ ReturnedAfterFailure(p) =>
           /\ result[p].err # NoErr
           /\ result[p].err = IF op[p] = "DeleteContext" THEN DeleteError(p) ELSE FetchError(p)

C11_Step ==
  \A p \in Procs :
     nsent'[p] > nsent[p] =>
        /\ nsent'[p] = nsent[p] + 1
        /\ Len(fetched[p]) = nsent[p]

\* C11: an operation hands a request to the transport only when every
\* request it handed over before was answered by a page that decoded, so no
\* request follows a failed fetch and no page is asked for twice;
\* DeleteContext hands over at most one; and an operation that returns after
\* a failed fetch returns the error of that fetch.
C11_NoRetries == [] C11_State /\ [][C11_Step]_vars

C11_Witness ==
  \E p \in Procs :
     /\ Done(p, "ContextByName")
     /\ nsent[p] = 2 /\ Len(fetched[p]) = 1
     /\ resp[p] = None
     /\ result[p].err = Err("transport", "Do")

\* Caller p's operation has a next step to take: the positions at which
\* ListRequest, DoError, DoResponse, ReadError or ReadBody is enabled.
Running(p) == pc[p] \in {"call", "inflight", "body"}

Traversing(p) == op[p] \in {"Contexts", "ContextByName"}

\* C12: a traversal against a server whose token chain ends within MaxPages
\* pages sends at most MaxPages requests and is never stuck short of its
\* return: at every moment it has returned or it has a next step to take.
C12_TraversalReturns ==
  \A p \in Procs :
     Traversing(p) =>
        /\ nsent[p] <= MaxPages
        /\ pc[p] = "done" \/ Running(p)

\* The part of C12 that holds in every run: the traversal goes on past a
\* decoded page exactly when the page carries a next-page-token (and, for
\* ContextByName, no item of the page has the name), and otherwise returns.
C12_ContinuesIffToken ==
  [][\A p \in Procs :
        (Traversing(p) /\ Len(fetched'[p]) = Len(fetched[p]) + 1) =>
           LET page == resp'[p][1].Body[1]
               more == /\ page.next_page_token # None
                       /\ op[p] = "ContextByName" => ~HasNamed(page.items, args[p].name)
           IN  /\ more => pc'[p] = "call"
               /\ ~more => pc'[p] = "done"]_vars

\* Caller p holds a response body it has not closed.
BodyOpen(p) == resp[p] # None /\ ~resp[p][1].Closed

\* The fetch of caller p has got a response and has returned or crashed.
FetchOver(p) == resp[p] # None /\ pc[p] # "body"

\* C13: a response body is open only while the fetch that got it is at
\* ioutil.ReadAll; once listContexts or DeleteContext is over (error from
\* ReadAll, non-200 status, undecodable body, success, crash) the body has
\* been through ReadAll and is closed. The next request of a traversal is
\* built only after that, so one traversal never has two bodies open.
C13_BodyClosed ==
  \A p \in Procs :
     /\ BodyOpen(p) => pc[p] = "body" /\ resp[p][1].Body = None
     /\ FetchOver(p) => resp[p][1].Closed
     /\ pc[p] \in {"call", "inflight"} => ~BodyOpen(p)

C13_Witness ==
  \E p \in Procs :
     /\ Done(p, "Contexts") /\ nsent[p] = 2
     /\ BodyRead(p) /\ resp[p][1].StatusCode = StatusOK
     /\ ~LastBody(p).valid
     /\ resp[p][1].Closed

\* Further cases of C13: the body of a failed ReadAll, and of a page that is
\* followed by another request.
C13_WitnessReadError ==
  \E p \in Procs :
     /\ Done(p, "DeleteContext")
     /\ resp[p] # None /\ resp[p][1].Body = None /\ resp[p][1].Closed

C13_WitnessNextPage ==
  \E p \in Procs :
     /\ pc[p] = "call" /\ nsent[p] = 1 /\ Len(fetched[p]) = 1
     /\ resp[p] # None /\ resp[p][1].Closed

\* A fetch of caller p is in flight: its request is with the transport, or
\* its response is being read.
InFlight(p) == pc[p] \in {"inflight", "body"}

\* The values that query q gives for key.
ValuesOf(q, key) == {q[i][2] : i \in {j \in 1..Len(q) : q[j][1] = key}}

\* What a request built from page-token field tok carries as page-token.
TokenSent(tok) == IF tok = None THEN {} ELSE {QueryEscape(tok[1])}

C14_State ==
  \A p \in Procs :
     /\ nsent[p] <= Len(fetched[p]) + 1
     /\ InFlight(p) => nsent[p] = Len(fetched[p]) + 1
     /\ InFlight(p) /\ op[p] \in ListOps =>
           ValuesOf(req[p][1].RawQuery, KeyPageToken) = TokenSent(params[p].PageToken)

C14_Step ==
  \A p \in Procs :
     /\ InFlight(p) => ~(pc'[p] = "inflight" /\ nsent'[p] # nsent[p])
     /\ params'[p].PageToken # params[p].PageToken =>
           \/ /\ pc[p] = "body" /\ pc'[p] = "call"
              /\ Len(fetched'[p]) = Len(fetched[p]) + 1
              /\ params'[p].PageToken = resp'[p][1].Body[1].next_page_token
           \/ pc'[p] = "idle"

\* C14: a traversal has at most one fetch in flight: a request is handed to
\* the transport only when no fetch is in flight, and all requests but the
\* last have been answered by a page. The page-token of the traversal
\* changes only in the step that ends a fetch with a decoded page and leaves
\* the traversal about to build its next request (or when the operation is
\* over and its params are dropped); while a fetch is in flight the
\* page-token is the one its request was built with.
C14_SequentialFetches == [] C14_State /\ [][C14_Step]_vars

C14_Witness ==
  \E p \in Procs :
     /\ pc[p] = "body" /\ nsent[p] = 3
     /\ op[p] = "Contexts"
     /\ params[p].PageToken = Some(<<"/">>)
     /\ ValuesOf(req[p][1].RawQuery, KeyPageToken) = {<<"%", "2", "F">>}

\* What caller p's operation returns when it runs alone and the server gives
\* it the responses that p has received.
AloneResult(p) ==
  IF op[p] = "DeleteContext" THEN [NoResult EXCEPT !.err = DeleteError(p)]
  ELSE IF ~AllFetched(p) THEN [NoResult EXCEPT !.err = FetchError(p)]
  ELSE IF op[p] = "Contexts" THEN [NoResult EXCEPT !.contexts = Flatten(fetched[p])]
  ELSE LET first == FirstNamed(fetched[p], args[p].name) IN
       IF first # None THEN [NoResult EXCEPT !.context = first]
       ELSE [NoResult EXCEPT !.err = Err("notfound", args[p].name)]

\* All that belongs to caller p's operation.
Private(p) ==
  <<op[p], args[p], params[p], stack[p], req[p], resp[p], result[p], fetched[p], nsent[p]>>

C15_State ==
  \A p \in Procs :
     /\ params[p].PageToken \in {None, Some(ConcToken(p))}
     /\ req[p] # None => ValuesOf(req[p][1].RawQuery, KeyPageToken) \subseteq {QueryEscape(ConcToken(p))}
     /\ pc[p] = "done" => result[p] = AloneResult(p)

C15_Step == \A p \in Procs : pc'[p] = pc[p] => Private(p)' = Private(p)

\* C15: with operations of several callers under way on one client, in any
\* interleaving of their steps: a step of one operation leaves everything
\* that belongs to another untouched; no request carries a page-token other
\* than one the server gave to the same operation; and what an operation
\* returns is what it returns alone on the responses it received.
C15_IndependentTraversals == [] C15_State /\ [][C15_Step]_vars

C15_Witness ==
  /\ Done("c1", "Contexts") /\ nsent["c1"] = 2
  /\ result["c1"].contexts = <<ConcItem("c1"), ConcItem("c1")>>
  /\ op["c2"] = "ContextByName" /\ pc["c2"] = "inflight" /\ nsent["c2"] = 2
  /\ ValuesOf(req["c2"][1].RawQuery, KeyPageToken) = {<<"%", "2", "F">>}

\* C16: the client is, at every moment, the one NewClient returned, and no
\* step of any operation (request construction, fetch, decoding, return,
\* with or without error, crash included) changes its token, its server or
\* its transport handle.
C16_ClientImmutable ==
  [] (client = NewClient(given.server, given.token)) /\ [][client' = client]_vars

C16_Witness ==
  \E p \in Procs :
     /\ Done(p, "DeleteContext") /\ nsent[p] = 1
     /\ result[p].err = Err("remote", "m1")
     /\ client = NewClient(given.server, given.token)

\* Further case of C16: a traversal of three fetches has returned its result.
C16_WitnessSuccess ==
  \E p \in Procs :
     /\ Done(p, "Contexts") /\ nsent[p] = 3 /\ result[p].err = NoErr
     /\ client = NewClient(given.server, given.token)

OwnerKeys == {KeyOwnerID, KeyOwnerSlug, KeyOwnerType}

C17_Step ==
  \A p \in Procs :
     (Traversing(p) /\ nsent'[p] = nsent[p] + 1) =>
        LET q == req'[p][1].RawQuery IN
        /\ \A i \in 1..Len(q) : q[i][1] \in OwnerKeys \cup {KeyPageToken}
        /\ ValuesOf(q, KeyOwnerSlug) = TokenSent(params[p].OwnerSlug)
        /\ ValuesOf(q, KeyOwnerID) = TokenSent(params[p].OwnerID)
        /\ ValuesOf(q, KeyOwnerType) = TokenSent(params[p].OwnerType)
        /\ nsent[p] = 0 => ValuesOf(q, KeyPageToken) = {}
        /\ nsent[p] >= 1 =>
              /\ LastBody(p).next_page_token # None
              /\ ValuesOf(q, KeyPageToken) = TokenSent(LastBody(p).next_page_token)
              /\ \A key \in OwnerKeys :
                    ValuesOf(q, key) = ValuesOf(req[p][1].RawQuery, key)

C17_Frame ==
  \A p \in Procs :
     (Traversing(p) /\ pc'[p] # "idle") =>
        /\ params'[p].OwnerID = params[p].OwnerID
        /\ params'[p].OwnerSlug = params[p].OwnerSlug
        /\ params'[p].OwnerType = params[p].OwnerType

\* C17: in the step that hands a traversal's request to the transport, the
\* first request of the traversal has no page-token, whatever operations
\* the client served before; a later request has as page-token the
\* next-page-token of the page the fetch before it returned; and its
\* owner-id, owner-slug and owner-type are those of the request before it,
\* which are those of the params, unchanged for the whole traversal.
C17_CursorChaining == [][C17_Step /\ C17_Frame]_vars

C17_Witness ==
  \E p \in Procs :
     /\ op[p] = "ContextByName" /\ pc[p] = "inflight" /\ nsent[p] = 2
     /\ ValuesOf(req[p][1].RawQuery, KeyPageToken) = {<<"p">>}
     /\ ValuesOf(req[p][1].RawQuery, KeyOwnerSlug) = {QueryEscape(toSlug(<<"o">>, <<"g">>))}
     /\ ValuesOf(req[p][1].RawQuery, KeyOwnerID) = {}

====
